---- MODULE Spec2Model ----
(***************************************************************************)
(* Downside-up Communicator: the Morse transmission sequencer of App.tsx   *)
(* (React component UpsideDownCommunicator) and the TransmissionDB store   *)
(* of src/db/database.ts.                                                  *)
(*                                                                         *)
(* Characters are UTF-16 code units (what charCodeAt returns); a string is *)
(* a sequence of code units.  A Morse pulse string is a sequence of the    *)
(* symbols ".", "-" and "/".  Time is counted in units of 100 ms, the      *)
(* greatest common divisor of every delay the component passes to          *)
(* setTimeout (100, 200, 500 and 600 ms).                                  *)
(***************************************************************************)
EXTENDS Integers, Sequences, FiniteSets, TLC

VARIABLES
  \* --- React state of UpsideDownCommunicator -------------------------------
  message,              \* useState('')
  morseOutput,          \* useState<string[]>([])
  isTransmitting,       \* useState(false)
  currentSignalIndex,   \* useState(0)
  transmissionHistory,  \* useState([])
  isFlashing,           \* useState(false)
  currentSignalType,    \* useState(null): "dit" | "dah" | "null"
  emergencyMode,        \* useState(false)
  encryptionMode,       \* useState('none')
  caesarShift,          \* useState(3)
  xorKey,               \* useState('11')
  audioEnabled,         \* useState(true)
  isPossessed,          \* useState(false)
  glyphCanvas,          \* useState(''): the rows of the glyph, or <<>>
  showGlyph,            \* useState(false)
  sanity,               \* useState(100), counted in half points
  possessionTimer,      \* useState(0)
  konamiSequence,       \* useState([])
  channel,              \* useState(1)
  decodeMode,           \* useState(false)
  decodeInput,          \* useState('')
  decodedText,          \* useState('')
  \* --- browser -------------------------------------------------------------
  timers,               \* pending setTimeout callbacks, in creation order
  channelTimers,        \* pending callbacks of handleChannelChange, in creation order
  clock,                \* elapsed time, in units of 100 ms
  localStorage,         \* value stored under 'upside_down_db', or NoItem
  storageFull,          \* localStorage.setItem throws QuotaExceededError
  \* --- the TransmissionDB singleton ----------------------------------------
  db,                   \* this.db: NoDb (null) or the in-memory database
  initialized,          \* this.initialized
  loadState,            \* loadDatabase(): "pending" | "done" | "failed"
  \* --- observation ---------------------------------------------------------
  unmounted,            \* an exception left an effect: React removed the tree
  userLog,              \* the user actions taken so far
  flashLog,             \* flash-begin events since the last transmission start
  lastDone,             \* what the last completion step saw
  observed,             \* tone requests, what handleTransmit computed, start times
  session,              \* what the previous page session's store returned
  keyLog,               \* every key pressed so far
  ticks,                \* interval callbacks run so far
  args,                 \* the arguments of the text transform under study
  applied               \* what the text transform returned for them

vars == <<message, morseOutput, isTransmitting, currentSignalIndex,
          transmissionHistory, isFlashing, currentSignalType, emergencyMode,
          encryptionMode, caesarShift, xorKey, timers, clock, localStorage,
          storageFull, db, initialized, loadState, unmounted, userLog,
          flashLog, lastDone, observed, session, audioEnabled, isPossessed,
          glyphCanvas, showGlyph, sanity, possessionTimer, konamiSequence,
          channel, decodeMode, decodeInput, decodedText, channelTimers,
          keyLog, ticks, args, applied>>

\* The component without them, and the store
app == <<message, morseOutput, isTransmitting, currentSignalIndex,
         transmissionHistory, isFlashing, currentSignalType, emergencyMode,
         encryptionMode, caesarShift, xorKey, timers, clock, loadState,
         unmounted, userLog, flashLog, lastDone, observed, audioEnabled, isPossessed,
         glyphCanvas, showGlyph>>
store == <<localStorage, storageFull, db, initialized, session>>

\* The sanity meter, the channel dial, the decoder and the text transforms
\* under study: what the transmission sequencer neither reads nor writes
aside == <<sanity, possessionTimer, konamiSequence, channel, decodeMode,
           decodeInput, decodedText, channelTimers, keyLog, ticks, args,
           applied>>

----------------------------------------------------------------------------
(* Bounds of the model                                                     *)

MaxTime == 9         \* the clock stops at MaxTime * 100 ms
MaxUserActions == 3   \* user actions per behaviour
MaxLog == 4           \* flash-begin events recorded per transmission
MaxStoreOps == 6      \* store operations per behaviour of the store alone
MaxTextLen == 2       \* length of the texts given to the text transforms
MaxKeys == 5          \* keys pressed per behaviour
MaxTicks == 1         \* interval callbacks per behaviour with a keyboard

----------------------------------------------------------------------------
(* Characters                                                              *)

Letters == <<"A","B","C","D","E","F","G","H","I","J","K","L","M",
             "N","O","P","Q","R","S","T","U","V","W","X","Y","Z">>
Digits == <<"0","1","2","3","4","5","6","7","8","9">>

\* charCodeAt(0) of the characters the model writes as one-character strings
CodeOf(c) ==
  IF \E i \in 1..26 : Letters[i] = c
    THEN 64 + (CHOOSE i \in 1..26 : Letters[i] = c)
  ELSE IF \E i \in 1..10 : Digits[i] = c
    THEN 47 + (CHOOSE i \in 1..10 : Digits[i] = c)
  ELSE IF c = " " THEN 32
  ELSE IF c = "!" THEN 33
  ELSE IF c = "e" THEN 101
  ELSE IF c = "-" THEN 45
  ELSE IF c = "." THEN 46
  ELSE IF c = "/" THEN 47
  ELSE IF c = "@" THEN 64
  ELSE IF c = "[" THEN 91
  ELSE IF c = "a" THEN 97
  ELSE IF c = "b" THEN 98
  ELSE 63

Str(s) == [i \in 1..Len(s) |-> CodeOf(s[i])]

\* String.prototype.toUpperCase on one code unit (ASCII range)
toUpperCase(ch) == IF ch >= 97 /\ ch <= 122 THEN ch - 32 ELSE ch

\* String.prototype.trim: code units that trim() strips (ASCII range)
IsSpace(ch) == ch \in {32, 9, 10, 11, 12, 13}
trim(text) ==
  LET keep == {i \in 1..Len(text) : ~IsSpace(text[i])}
  IN IF keep = {} THEN <<>>
     ELSE LET lo == CHOOSE i \in keep : \A j \in keep : i <= j
              hi == CHOOSE i \in keep : \A j \in keep : j <= i
          IN SubSeq(text, lo, hi)

RECURSIVE Reverse(_)
Reverse(s) == IF s = <<>> THEN <<>> ELSE Append(Reverse(Tail(s)), Head(s))

----------------------------------------------------------------------------
(* Symbol table                                                            *)

\* A symbol table in which several characters share a pulse string
MorseWithClashes ==
  [c \in (48..57) \cup (65..90) \cup {32} |-> [i \in 1..((c % 5) + 1) |-> "."]]

MORSE_CODE ==
  [c \in {CodeOf(Letters[i]) : i \in 1..26} \cup
         {CodeOf(Digits[i]) : i \in 1..10} \cup {32} |->
    CASE c = 65 -> <<".","-">>
      [] c = 66 -> <<"-",".",".",".">>
      [] c = 67 -> <<"-",".","-",".">>
      [] c = 68 -> <<"-",".",".">>
      [] c = 69 -> <<".">>
      [] c = 70 -> <<".",".","-",".">>
      [] c = 71 -> <<"-","-",".">>
      [] c = 72 -> <<".",".",".",".">>
      [] c = 73 -> <<".",".">>
      [] c = 74 -> <<".","-","-","-">>
      [] c = 75 -> <<"-",".","-">>
      [] c = 76 -> <<".","-",".",".">>
      [] c = 77 -> <<"-","-">>
      [] c = 78 -> <<"-",".">>
      [] c = 79 -> <<"-","-","-">>
      [] c = 80 -> <<".","-","-",".">>
      [] c = 81 -> <<"-","-",".","-">>
      [] c = 82 -> <<".","-",".">>
      [] c = 83 -> <<".",".",".">>
      [] c = 84 -> <<"-">>
      [] c = 85 -> <<".",".","-">>
      [] c = 86 -> <<".",".",".","-">>
      [] c = 87 -> <<".","-","-">>
      [] c = 88 -> <<"-",".",".","-">>
      [] c = 89 -> <<"-",".","-","-">>
      [] c = 90 -> <<"-","-",".",".">>
      [] c = 48 -> <<"-","-","-","-","-">>
      [] c = 49 -> <<".","-","-","-","-">>
      [] c = 50 -> <<".",".","-","-","-">>
      [] c = 51 -> <<".",".",".","-","-">>
      [] c = 52 -> <<".",".",".",".","-">>
      [] c = 53 -> <<".",".",".",".",".">>
      [] c = 54 -> <<"-",".",".",".",".">>
      [] c = 55 -> <<"-","-",".",".",".">>
      [] c = 56 -> <<"-","-","-",".",".">>
      [] c = 57 -> <<"-","-","-","-",".">>
      [] c = 32 -> <<"/">>]

\* textToMorse without .filter(Boolean): '' stays for a character the table lacks
RECURSIVE textToMorseUnfiltered(_)
textToMorseUnfiltered(text) ==
  IF text = <<>> THEN <<>>
  ELSE LET ch == toUpperCase(Head(text))
       IN IF ch \in DOMAIN MORSE_CODE
            THEN <<MORSE_CODE[ch]>> \o textToMorseUnfiltered(Tail(text))
            ELSE <<<<>>>> \o textToMorseUnfiltered(Tail(text))

\* text.toUpperCase().split('').map(char => MORSE_CODE[char] || '').filter(Boolean)
RECURSIVE textToMorse(_)
textToMorse(text) ==
  IF text = <<>> THEN <<>>
  ELSE LET ch == toUpperCase(Head(text))
       IN IF ch \in DOMAIN MORSE_CODE
            THEN <<MORSE_CODE[ch]>> \o textToMorse(Tail(text))
            ELSE textToMorse(Tail(text))

\* Object.entries(MORSE_CODE): integer-like keys first, in ascending order,
\* then the other keys in insertion order
MorseEntries ==
  [i \in 1..37 |-> IF i <= 10 THEN 47 + i ELSE IF i <= 36 THEN 54 + i ELSE 32]

\* Object.fromEntries(entries.map(([k, v]) => [v, k])), keyed by the pulse
\* string's characters: of two entries with the same key the later one stays
REVERSE_MORSE ==
  [p \in {Str(MORSE_CODE[c]) : c \in DOMAIN MORSE_CODE} |->
     LET owners == {i \in 1..37 : Str(MORSE_CODE[MorseEntries[i]]) = p}
     IN MorseEntries[CHOOSE i \in owners : \A j \in owners : j <= i]]

\* String.prototype.split(/\s+/) of a trimmed string: its runs of characters
\* that are not white space, and one empty string when it is empty
RECURSIVE Runs(_)
Runs(text) ==
  IF text = <<>> THEN <<>>
  ELSE IF IsSpace(Head(text)) THEN Runs(Tail(text))
  ELSE LET stops == {i \in 1..Len(text) : IsSpace(text[i])}
           n == IF stops = {} THEN Len(text)
                ELSE (CHOOSE i \in stops : \A j \in stops : i <= j) - 1
       IN <<SubSeq(text, 1, n)>> \o Runs(SubSeq(text, n + 1, Len(text)))

split(text) == IF text = <<>> THEN << <<>> >> ELSE Runs(text)

\* handleDecode: the text it passes to setDecodedText
decode(input) ==
  LET parts == split(trim(input))
  IN [i \in 1..Len(parts) |->
        IF parts[i] \in DOMAIN REVERSE_MORSE THEN REVERSE_MORSE[parts[i]] ELSE 63]

----------------------------------------------------------------------------
(* Text transforms                                                         *)

\* JavaScript's % : the remainder takes the sign of the dividend
JsRem(a, n) == IF a >= 0 THEN a % n ELSE -((-a) % n)

\* caesarEncrypt with the % 26 left out
caesarEncryptNoWrap(text, shift) ==
  [i \in 1..Len(text) |->
     IF text[i] >= 65 /\ text[i] <= 90 THEN (text[i] - 65 + shift) + 65
     ELSE text[i]]

caesarEncrypt(text, shift) ==
  [i \in 1..Len(text) |->
     IF text[i] >= 65 /\ text[i] <= 90
       THEN JsRem(text[i] - 65 + shift, 26) + 65
       ELSE text[i]]

\* Number.prototype.toString(radix) of a non-negative integer, as digit values
RECURSIVE ToDigits(_, _)
ToDigits(n, radix) ==
  IF n < radix THEN <<n>> ELSE Append(ToDigits(n \div radix, radix), n % radix)

\* Number.prototype.toString(radix) as code units: a '-' for a negative
\* number, then the digits 0-9 and a-z of its magnitude
toStringRadix(n, radix) ==
  LET ds == ToDigits(IF n < 0 THEN -n ELSE n, radix)
      cs == [i \in 1..Len(ds) |-> IF ds[i] < 10 THEN 48 + ds[i] ELSE 87 + ds[i]]
  IN IF n < 0 THEN <<45>> \o cs ELSE cs

\* String.prototype.padStart(width, pad) with a one-character pad
padStart(cs, width, pad) ==
  IF Len(cs) >= width THEN cs
  ELSE [i \in 1..(width - Len(cs)) |-> pad] \o cs

\* char.charCodeAt(0).toString(2).padStart(8, '0'), for each character (the
\* result joins them with ' ')
toBinary(text) ==
  [i \in 1..Len(text) |-> padStart(toStringRadix(text[i], 2), 8, 48)]

\* a ^ b on non-negative operands
RECURSIVE XorBits(_, _)
XorBits(a, b) ==
  IF a = 0 THEN b
  ELSE IF b = 0 THEN a
  ELSE 2 * XorBits(a \div 2, b \div 2) + (((a % 2) + (b % 2)) % 2)

\* a ^ b on 32-bit two's complement operands: ~x is -x - 1, and
\* a ^ b = ~(a ^ ~b) = ~a ^ ~b
BitXor(a, b) ==
  IF a >= 0 /\ b >= 0 THEN XorBits(a, b)
  ELSE IF a < 0 /\ b < 0 THEN XorBits(-a - 1, -b - 1)
  ELSE IF a < 0 THEN -XorBits(-a - 1, b) - 1
  ELSE -XorBits(a, -b - 1) - 1

IsDigit(ch) == ch >= 48 /\ ch <= 57

\* The value of the longest prefix of decimal digits
RECURSIVE DigitsValue(_, _)
DigitsValue(key, acc) ==
  IF key = <<>> \/ ~IsDigit(Head(key)) THEN acc
  ELSE DigitsValue(Tail(key), 10 * acc + (Head(key) - 48))

\* The string without its leading white space
RECURSIVE StripLeft(_)
StripLeft(text) ==
  IF text # <<>> /\ IsSpace(Head(text)) THEN StripLeft(Tail(text)) ELSE text

\* parseInt(key, 10): leading white space is skipped, a sign is read, then the
\* longest prefix of digits; NaN when there is no digit
parseInt(key) ==
  LET t == StripLeft(key)
      signed == t # <<>> /\ Head(t) \in {43, 45}
      u == IF signed THEN Tail(t) ELSE t
  IN IF u = <<>> \/ ~IsDigit(Head(u)) THEN [NaN |-> TRUE, value |-> 0]
     ELSE [NaN |-> FALSE,
           value |-> IF signed /\ Head(t) = 45 THEN -DigitsValue(u, 0)
                     ELSE DigitsValue(u, 0)]

\* parseInt(key, 10) || 11 with the test for 0 left out: NaN alone falls back
keyNumNaNOnly(key) ==
  LET parsed == parseInt(key) IN IF parsed.NaN THEN 11 ELSE parsed.value

\* const keyNum = parseInt(key, 10) || 11: NaN and 0 are falsy
keyNum(key) ==
  LET parsed == parseInt(key)
  IN IF parsed.NaN \/ parsed.value = 0 THEN 11 ELSE parsed.value

\* xored.toString(16).padStart(2, '0').toUpperCase(), for each character (the
\* result joins them with ' ')
xorWith(text, num) ==
  [i \in 1..Len(text) |->
     LET xored == BitXor(text[i], num)
         token == padStart(toStringRadix(xored, 16), 2, 48)
     IN [j \in 1..Len(token) |-> toUpperCase(token[j])]]

xorEncrypt(text, key) == xorWith(text, keyNum(key))

\* The hash of generateGlyph, as the two 16-bit halves <<high, low>> of its
\* 32-bit pattern: hash = ((hash << 5) - hash) + code; hash = hash & hash
RECURSIVE glyphHash(_, _)
glyphHash(text, hash) ==
  IF text = <<>> THEN hash
  ELSE LET low == hash[2] * 31 + Head(text)
           high == hash[1] * 31 + (low \div 65536)
       IN glyphHash(Tail(text), <<high % 65536, low % 65536>>)

\* (hash >> n) & 1 for n in 0..31
hashBit(hash, n) ==
  IF n < 16 THEN (hash[2] \div (2 ^ n)) % 2 ELSE (hash[1] \div (2 ^ (n - 16))) % 2

\* generateGlyph: the 8 rows of the grid, TRUE where the cell is filled.
\* text.charCodeAt of an index that is NaN (the text is empty) is NaN
generateGlyph(text) ==
  LET hash == glyphHash(text, <<0, 0>>)
      filled(y, x) ==
        \/ hashBit(hash, (y * 4 + x) % 32) = 1
        \/ text # <<>> /\ text[((y + x) % Len(text)) + 1] % 3 = 0
  IN [row \in 1..8 |->
        [col \in 1..8 |->
           filled(row - 1, IF col <= 4 THEN col - 1 ELSE 8 - col)]]

\* encryptMessage, given the mode and parameters of the render that calls it.
\* display is the logged text: its bracketed prefix (mode tag and parameter)
\* and its body.
encryptMessageWith(text, mode, shift, key) ==
  CASE mode = "caesar" ->
         [display |-> [tag |-> "CAESAR", param |-> <<shift>>,
                       body |-> caesarEncrypt(text, shift)],
          forMorse |-> caesarEncrypt(text, shift)]
    [] mode = "binary" ->
         [display |-> [tag |-> "BINARY", param |-> <<>>, body |-> toBinary(text)],
          forMorse |-> text]
    [] mode = "xor" ->
         [display |-> [tag |-> "XOR", param |-> key, body |-> xorEncrypt(text, key)],
          forMorse |-> text]
    [] OTHER ->
         [display |-> [tag |-> "", param |-> <<>>, body |-> text],
          forMorse |-> text]

----------------------------------------------------------------------------
(* TransmissionDB (src/db/database.ts)                                     *)
(*                                                                         *)
(* The in-memory SQLite database is its one table, as the sequence of its  *)
(* rows in insertion order, and the AUTOINCREMENT counter that SQLite      *)
(* keeps in sqlite_sequence (DELETE FROM does not reset it).  The exported *)
(* image written to localStorage holds both.                               *)

\* null and undefined, as records so that they compare with the records they stand in for
NoDb == [null |-> "db"]
NoItem == [null |-> "item"]
Undefined == [undefined |-> "encrypted"]

\* new SQL.Database() followed by CREATE TABLE IF NOT EXISTS transmissions
createTables == [rows |-> <<>>, seq |-> 0]

\* this.db.export(), Array.from, JSON.stringify
dbExport(d) == [table |-> d.rows, sqlite_sequence |-> d.seq]

\* JSON.parse, new Uint8Array, new SQL.Database(uint8Array)
dbOpen(image) == [rows |-> image.table, seq |-> image.sqlite_sequence]

\* save(): the value of localStorage afterwards, and whether setItem threw
save(d, ls, full) ==
  IF d = NoDb THEN [ls |-> ls, threw |-> FALSE]
  ELSE IF full THEN [ls |-> ls, threw |-> TRUE]
  ELSE [ls |-> dbExport(d), threw |-> FALSE]

\* INSERT INTO transmissions (message, encrypted, timestamp, encryption_mode)
dbInsert(d, msg, encrypted, timestamp, mode) ==
  [rows |-> Append(d.rows, [id |-> d.seq + 1, message |-> msg,
                            encrypted |-> encrypted, timestamp |-> timestamp,
                            encryption_mode |-> mode]),
   seq |-> d.seq + 1]

\* addTransmission with save() called before the INSERT instead of after it
addTransmissionSaveFirst(d, ls, full, msg, encrypted, timestamp, mode) ==
  IF d = NoDb THEN [db |-> d, ls |-> ls, threw |-> FALSE]
  ELSE LET sv == save(d, ls, full)
       IN [db |-> IF sv.threw THEN d ELSE dbInsert(d, msg, encrypted, timestamp, mode),
           ls |-> sv.ls, threw |-> sv.threw]

\* addTransmission: the database and localStorage afterwards, and whether it threw
addTransmission(d, ls, full, msg, encrypted, timestamp, mode) ==
  IF d = NoDb THEN [db |-> d, ls |-> ls, threw |-> FALSE]
  ELSE LET d1 == dbInsert(d, msg, encrypted, timestamp, mode)
           sv == save(d1, ls, full)
       IN [db |-> d1, ls |-> sv.ls, threw |-> sv.threw]

\* clearAll: DELETE FROM transmissions, then save()
clearAll(d, ls, full) ==
  IF d = NoDb THEN [db |-> d, ls |-> ls, threw |-> FALSE]
  ELSE LET d1 == [d EXCEPT !.rows = <<>>]
           sv == save(d1, ls, full)
       IN [db |-> d1, ls |-> sv.ls, threw |-> sv.threw]

\* ORDER BY id, the DESC forgotten
RECURSIVE OrderByIdAsc(_)
OrderByIdAsc(rows) ==
  IF rows = <<>> THEN <<>>
  ELSE LET low == CHOOSE i \in 1..Len(rows) : \A j \in 1..Len(rows) : rows[i].id <= rows[j].id
           rest == [k \in 1..(Len(rows) - 1) |-> IF k < low THEN rows[k] ELSE rows[k + 1]]
       IN <<rows[low]>> \o OrderByIdAsc(rest)

\* ORDER BY id DESC
RECURSIVE OrderByIdDesc(_)
OrderByIdDesc(rows) ==
  IF rows = <<>> THEN <<>>
  ELSE LET top == CHOOSE i \in 1..Len(rows) : \A j \in 1..Len(rows) : rows[j].id <= rows[i].id
           rest == [k \in 1..(Len(rows) - 1) |-> IF k < top THEN rows[k] ELSE rows[k + 1]]
       IN <<rows[top]>> \o OrderByIdDesc(rest)

\* LIMIT ?: a negative limit means no limit
Limit(rows, limit) ==
  IF limit < 0 \/ limit >= Len(rows) THEN rows ELSE SubSeq(rows, 1, limit)

getAllTransmissions(d) ==
  IF d = NoDb THEN <<>> ELSE OrderByIdDesc(d.rows)

getRecentTransmissions(d, limit) ==
  IF d = NoDb THEN <<>>
  ELSE LET sel == Limit(OrderByIdDesc(d.rows), limit)
       IN [i \in 1..Len(sel) |->
             [message |-> sel[i].message, encrypted |-> sel[i].encrypted,
              timestamp |-> sel[i].timestamp]]

\* getStats().totalCount: SELECT COUNT(*)
getStatsTotal(d) == IF d = NoDb THEN 0 ELSE Len(d.rows)

\* init(), from the point where initSqlJs has resolved: the singleton's fields
\* and localStorage afterwards, and whether the promise rejects (save() threw
\* inside createTables(), after this.db was assigned)
init(d, inited, ls, full) ==
  IF inited THEN [db |-> d, initialized |-> inited, ls |-> ls, threw |-> FALSE]
  ELSE IF ls # NoItem
    THEN [db |-> dbOpen(ls), initialized |-> TRUE, ls |-> ls, threw |-> FALSE]
  ELSE LET sv == save(createTables, ls, full)
       IN [db |-> createTables, initialized |-> ~sv.threw, ls |-> sv.ls,
           threw |-> sv.threw]

----------------------------------------------------------------------------
(* The component: renders, the transmission effect and its timer chains    *)
(*                                                                         *)
(* React batches the state updates of one handler or timer callback into   *)
(* one render and then runs every effect whose dependencies differ from    *)
(* the previous render's; the updates an effect makes cause a further      *)
(* render.  An action below is one callback followed by these renders,     *)
(* until no dependency of the transmission effect has changed.             *)

DitUnits == 2        \* duration of a dit: 200 ms
DahUnits == 6        \* duration of a dah: 600 ms
PulseGapUnits == 2   \* setTimeout(..., 200) between pulses
CharGapUnits == 5    \* setTimeout(..., 500) before the index advances
AutoTransmitUnits == 1   \* setTimeout(..., 100) of handlePreset and handleEmergencySOS
NormalHz == 700      \* playTone(emergencyMode ? 880 : 700, duration)
EmergencyHz == 880

PRESETS == {Str(<<"H","E","L","P">>), Str(<<"D","A","N","G","E","R">>),
            Str(<<"A","L","I","V","E">>), Str(<<"R","U","N">>),
            Str(<<"S","A","F","E">>), Str(<<"C","O","M","E">>)}
SOS == Str(<<"S","O","S">>)

\* The part of the state that callbacks and effects update
Cur ==
  [message |-> message, morseOutput |-> morseOutput,
   isTransmitting |-> isTransmitting, currentSignalIndex |-> currentSignalIndex,
   transmissionHistory |-> transmissionHistory, isFlashing |-> isFlashing,
   currentSignalType |-> currentSignalType, emergencyMode |-> emergencyMode,
   encryptionMode |-> encryptionMode, caesarShift |-> caesarShift,
   xorKey |-> xorKey, timers |-> timers, localStorage |-> localStorage,
   db |-> db, unmounted |-> unmounted, flashLog |-> flashLog,
   lastDone |-> lastDone, observed |-> observed,
   audioEnabled |-> audioEnabled,
   isPossessed |-> isPossessed, glyphCanvas |-> glyphCanvas,
   showGlyph |-> showGlyph]

Commit(s) ==
  /\ message' = s.message
  /\ morseOutput' = s.morseOutput
  /\ isTransmitting' = s.isTransmitting
  /\ currentSignalIndex' = s.currentSignalIndex
  /\ transmissionHistory' = s.transmissionHistory
  /\ isFlashing' = s.isFlashing
  /\ currentSignalType' = s.currentSignalType
  /\ emergencyMode' = s.emergencyMode
  /\ encryptionMode' = s.encryptionMode
  /\ caesarShift' = s.caesarShift
  /\ xorKey' = s.xorKey
  /\ timers' = s.timers
  /\ localStorage' = s.localStorage
  /\ db' = s.db
  /\ unmounted' = s.unmounted
  /\ flashLog' = s.flashLog
  /\ lastDone' = s.lastDone
  /\ observed' = s.observed
  /\ audioEnabled' = s.audioEnabled
  /\ isPossessed' = s.isPossessed
  /\ glyphCanvas' = s.glyphCanvas
  /\ showGlyph' = s.showGlyph

\* A pending setTimeout callback: the time left and what its closure holds
Timer(delay, kind, signals, signalIdx, emergency, text) ==
  [rem |-> delay, kind |-> kind, signals |-> signals, signalIdx |-> signalIdx,
   emergency |-> emergency, text |-> text]

setTimeout(s, t) == [s EXCEPT !.timers = Append(@, t)]

\* The dependency array of the transmission effect.  playTone is a useCallback
\* on [audioEnabled, isPossessed, currentSignalType]: a new value of any of
\* the three is a new playTone.  What playTone itself does (the oscillator
\* and the VU level) is read by no effect and is left out.
TransmissionDeps(s) ==
  <<s.isTransmitting, s.currentSignalIndex, s.morseOutput, s.message,
    <<s.audioEnabled, s.isPossessed, s.currentSignalType>>, s.emergencyMode,
    s.encryptionMode, s.caesarShift, s.xorKey>>

Record(log, kind) == IF Len(log) < MaxLog THEN Append(log, kind) ELSE log

\* playTone(frequency, duration) as playSignal calls it: the request, with the
\* emergencyMode of the render in which it is made
ToneRequest(s, frequency, duration, kind) ==
  [frequency |-> frequency, duration |-> duration, kind |-> kind,
   emergencyMode |-> s.emergencyMode]

\* playSignal() keeping silent for the word separator: no flash and no tone
\* for '/', only the wait
playSignalSeparatorSilent(s, signals, signalIdx, emergency) ==
  IF signalIdx >= Len(signals)
    THEN setTimeout([s EXCEPT !.isFlashing = FALSE, !.currentSignalType = "null"],
                    Timer(CharGapUnits, "advance", signals, signalIdx, emergency,
                          <<>>))
  ELSE IF signals[signalIdx + 1] = "/"
    THEN setTimeout(s, Timer(DahUnits + PulseGapUnits, "gap", signals, signalIdx,
                             emergency, <<>>))
    ELSE LET isDit == signals[signalIdx + 1] = "."
             duration == IF isDit THEN DitUnits ELSE DahUnits
             kind == IF isDit THEN "dit" ELSE "dah"
             tone == ToneRequest(s, IF emergency THEN EmergencyHz ELSE NormalHz,
                                 duration, kind)
         IN setTimeout([s EXCEPT !.isFlashing = TRUE,
                                 !.currentSignalType = kind,
                                 !.flashLog = Record(@, kind),
                                 !.observed.tones = @ \cup {tone}],
                       Timer(duration, "flashEnd", signals, signalIdx, emergency,
                             <<>>))

\* playSignal() of the chain whose closure holds signals, signalIdx and the
\* emergencyMode of the render that started the chain
playSignal(s, signals, signalIdx, emergency) ==
  IF signalIdx >= Len(signals)
    THEN setTimeout([s EXCEPT !.isFlashing = FALSE, !.currentSignalType = "null"],
                    Timer(CharGapUnits, "advance", signals, signalIdx, emergency,
                          <<>>))
    ELSE LET isDit == signals[signalIdx + 1] = "."
             duration == IF isDit THEN DitUnits ELSE DahUnits
             kind == IF isDit THEN "dit" ELSE "dah"
             tone == ToneRequest(s, IF emergency THEN EmergencyHz ELSE NormalHz,
                                 duration, kind)
         IN setTimeout([s EXCEPT !.isFlashing = TRUE,
                                 !.currentSignalType = kind,
                                 !.flashLog = Record(@, kind),
                                 !.observed.tones = @ \cup {tone}],
                       Timer(duration, "flashEnd", signals, signalIdx, emergency,
                             <<>>))

\* A completion branch that leaves the index and the message as they are
CompleteTransmissionNoReset(s, now, full) ==
  LET encrypted == encryptMessageWith(s.message, s.encryptionMode, s.caesarShift,
                                      s.xorKey)
      entry == [message |-> s.message, timestamp |-> now,
                encrypted |-> encrypted.display]
  IN [s EXCEPT !.transmissionHistory = Append(@, entry),
               !.isTransmitting = FALSE,
               !.isFlashing = FALSE,
               !.currentSignalType = "null"]

\* The completion branch of the transmission effect
CompleteTransmission(s, now, full) ==
  LET encrypted == encryptMessageWith(s.message, s.encryptionMode, s.caesarShift,
                                      s.xorKey)
      entry == [message |-> s.message, timestamp |-> now,
                encrypted |-> encrypted.display]
      added == addTransmission(s.db, s.localStorage, full, s.message,
                               encrypted.display, now, s.encryptionMode)
      seen == [message |-> s.message, display |-> encrypted.display,
               morse |-> s.morseOutput, flashes |-> s.flashLog,
               mode |-> s.encryptionMode, count |-> s.lastDone.count + 1]
  IN IF added.threw
       THEN [s EXCEPT !.db = added.db, !.unmounted = TRUE]
       ELSE [s EXCEPT !.transmissionHistory = Append(@, entry),
                      !.db = added.db,
                      !.localStorage = added.ls,
                      !.isTransmitting = FALSE,
                      !.currentSignalIndex = 0,
                      !.isFlashing = FALSE,
                      !.currentSignalType = "null",
                      !.message = <<>>,
                      !.lastDone = seen]

\* The body of the transmission effect
TransmissionEffect(s, now, full) ==
  IF s.isTransmitting /\ s.currentSignalIndex < Len(s.morseOutput)
    THEN playSignal(s, s.morseOutput[s.currentSignalIndex + 1], 0,
                    s.emergencyMode)
  ELSE IF s.currentSignalIndex >= Len(s.morseOutput) /\ s.isTransmitting
    THEN CompleteTransmission(s, now, full)
  ELSE s

\* Render after render, until the effect's dependencies are those of the
\* render before (deps) or the tree is gone
RECURSIVE Render(_, _, _, _)
Render(deps, s, now, full) ==
  IF s.unmounted \/ TransmissionDeps(s) = deps THEN s
  ELSE CHOOSE r \in {Render(TransmissionDeps(s), e, now, full) :
                       e \in {TransmissionEffect(s, now, full)}} : TRUE

\* One callback: its state updates, then the renders they cause
Step(s) ==
  \E r \in {Render(TransmissionDeps(Cur), u, clock, storageFull) : u \in {s}} :
    Commit(r)

----------------------------------------------------------------------------
(* Initial state: the component has mounted, loadDatabase() is awaiting    *)
(* transmissionDB.init(), nothing is stored yet                            *)

\* useState(100): a full sanity meter, in half points (the meter falls by 0.5)
SanityFull == 200

\* No text transform is under study / none has been applied yet
NoArgs == [fn |-> "none", text |-> <<>>, shift |-> 0, key |-> <<>>]
NotApplied == [done |-> FALSE, out |-> <<>>, undone |-> FALSE, back |-> <<>>]

NoSession == [restarted |-> FALSE, all |-> <<>>, saved |-> FALSE,
              lastSaveOk |-> FALSE, calls |-> <<>>, sinceInit |-> 0, ops |-> 0]

\* No tone has been requested, no transmission has started
NothingObserved ==
  [tones |-> {},
   started |-> [message |-> <<>>, display |-> <<>>, mode |-> "none"],
   txStart |-> 0, charStart |-> 0]

\* useState(...) of every state variable, and a TransmissionDB just constructed
Fresh ==
  /\ message = <<>>
  /\ morseOutput = <<>>
  /\ isTransmitting = FALSE
  /\ currentSignalIndex = 0
  /\ transmissionHistory = <<>>
  /\ isFlashing = FALSE
  /\ currentSignalType = "null"
  /\ emergencyMode = FALSE
  /\ encryptionMode = "none"
  /\ caesarShift = 3
  /\ xorKey = Str(<<"1","1">>)
  /\ timers = <<>>
  /\ clock = 0
  /\ db = NoDb
  /\ initialized = FALSE
  /\ loadState = "pending"
  /\ unmounted = FALSE
  /\ userLog = <<>>
  /\ flashLog = <<>>
  /\ lastDone = [message |-> <<>>, display |-> <<>>, morse |-> <<>>,
                 flashes |-> <<>>, mode |-> "none", count |-> 0]
  /\ observed = NothingObserved
  /\ audioEnabled = TRUE
  /\ isPossessed = FALSE
  /\ glyphCanvas = <<>>
  /\ showGlyph = FALSE
  /\ sanity = SanityFull
  /\ possessionTimer = 0
  /\ konamiSequence = <<>>
  /\ channel = 1
  /\ decodeMode = FALSE
  /\ decodeInput = <<>>
  /\ decodedText = <<>>
  /\ channelTimers = <<>>
  /\ keyLog = <<>>
  /\ ticks = 0
  /\ applied = NotApplied

Mounted == Fresh /\ localStorage = NoItem /\ session = NoSession

Init == Mounted /\ storageFull = FALSE /\ args = NoArgs

\* The same, in a browser whose storage quota for the origin is used up
InitQuota == Mounted /\ storageFull = TRUE /\ args = NoArgs

----------------------------------------------------------------------------
(* User actions                                                            *)

\* What the model's user types, selects and clicks
TypedTexts == {Str(<<" ">>), Str(<<"e">>)}
ClickedPresets == {Str(<<"R","U","N">>)}
SelectedModes == {"none", "caesar"}

NoneDue == \A i \in 1..Len(timers) : timers[i].rem > 0

\* The user acts between the instants at which callbacks are due: a click lands
\* on the same instant as a timer only by coincidence
CanAct == ~unmounted /\ NoneDue /\ Len(userLog) < MaxUserActions

\* The log entry of a user action: what was done, with which text, whether a
\* transmission was running, the message it replaced and the history's length
Did(act, text) ==
  userLog' = Append(userLog, [act |-> act, text |-> text,
                              running |-> isTransmitting, over |-> message,
                              logged |-> Len(transmissionHistory)])

\* onChange of the message input (disabled while transmitting)
TypeMessage(text) ==
  /\ CanAct
  /\ ~isTransmitting
  /\ LET value == [i \in 1..Len(text) |-> toUpperCase(text[i])]
     IN /\ value # message
        /\ Step([Cur EXCEPT !.emergencyMode = FALSE, !.message = value])
  /\ Did("type", text)
  /\ UNCHANGED <<clock, storageFull, initialized, loadState, session, aside>>

\* handleTransmit, from the transmit button (disabled while transmitting or
\* while message.trim() is empty)
handleTransmit ==
  /\ CanAct
  /\ ~isTransmitting /\ trim(message) # <<>>
  /\ IF trim(message) # <<>>
       THEN LET encrypted == encryptMessageWith(message, encryptionMode,
                                                caesarShift, xorKey)
                morse == textToMorse(encrypted.forMorse)
            IN Step([Cur EXCEPT !.morseOutput = morse,
                                !.isTransmitting = TRUE,
                                !.currentSignalIndex = 0,
                                !.glyphCanvas = generateGlyph(message),
                                !.showGlyph = TRUE,
                                !.flashLog = <<>>,
                                !.observed.started =
                                   [message |-> message,
                                    display |-> encrypted.display,
                                    mode |-> encryptionMode],
                                !.observed.txStart = clock,
                                !.observed.charStart = clock])
       ELSE Step(Cur)
  /\ Did("transmit", message)
  /\ UNCHANGED <<clock, storageFull, initialized, loadState, session, aside>>

\* handlePreset: the click; the transmission starts 100 ms later
handlePreset(preset) ==
  /\ CanAct
  /\ Step(setTimeout(
       [Cur EXCEPT !.message = preset,
                   !.emergencyMode = preset \in {Str(<<"H","E","L","P">>),
                                                 Str(<<"D","A","N","G","E","R">>),
                                                 Str(<<"R","U","N">>)}],
       Timer(AutoTransmitUnits, "preset", <<>>, 0, FALSE, preset)))
  /\ Did("preset", preset)
  /\ UNCHANGED <<clock, storageFull, initialized, loadState, session, aside>>

\* handleEmergencySOS: the click; the transmission starts 100 ms later
handleEmergencySOS ==
  /\ CanAct
  /\ Step(setTimeout([Cur EXCEPT !.emergencyMode = TRUE, !.message = SOS],
                     Timer(AutoTransmitUnits, "sos", <<>>, 0, FALSE, SOS)))
  /\ Did("sos", SOS)
  /\ UNCHANGED <<clock, storageFull, initialized, loadState, session, aside>>

\* onClick of an encryption button
SelectEncryption(mode) ==
  /\ CanAct
  /\ mode # encryptionMode
  /\ Step([Cur EXCEPT !.encryptionMode = mode])
  /\ Did("mode", <<>>)
  /\ UNCHANGED <<clock, storageFull, initialized, loadState, session, aside>>

\* onClick of the audio toggle: setAudioEnabled(!audioEnabled)
ToggleAudio ==
  /\ CanAct
  /\ Step([Cur EXCEPT !.audioEnabled = ~@])
  /\ Did("audio", <<>>)
  /\ UNCHANGED <<clock, storageFull, initialized, loadState, session, aside>>

----------------------------------------------------------------------------
(* Timers                                                                  *)

\* 100 ms pass while callbacks are pending and none is due
Tick ==
  /\ ~unmounted
  /\ timers # <<>> /\ NoneDue
  /\ clock < MaxTime
  /\ timers' = [i \in 1..Len(timers) |-> [timers[i] EXCEPT !.rem = @ - 1]]
  /\ clock' = clock + 1
  /\ UNCHANGED <<message, morseOutput, isTransmitting, currentSignalIndex,
                 transmissionHistory, isFlashing, currentSignalType,
                 emergencyMode, encryptionMode, caesarShift, xorKey,
                 localStorage, storageFull, db, initialized, loadState,
                 unmounted, userLog, flashLog, lastDone, observed, session,
                 audioEnabled, isPossessed, glyphCanvas, showGlyph, aside>>

\* The due callback that was scheduled first
Due == CHOOSE i \in 1..Len(timers) :
         timers[i].rem = 0 /\ \A j \in 1..(i - 1) : timers[j].rem > 0

Fires(kind) == ~unmounted /\ ~NoneDue /\ timers[Due].kind = kind

Taken == [Cur EXCEPT !.timers =
            [k \in 1..(Len(timers) - 1) |-> IF k < Due THEN timers[k] ELSE timers[k + 1]]]

Quiet ==
  UNCHANGED <<clock, storageFull, initialized, loadState, userLog, session, aside>>

\* The callback at the end of a pulse
FlashEnd ==
  /\ Fires("flashEnd")
  /\ Step(setTimeout([Taken EXCEPT !.isFlashing = FALSE, !.currentSignalType = "null"],
                     Timer(PulseGapUnits, "gap", timers[Due].signals,
                           timers[Due].signalIdx, timers[Due].emergency,
                           <<>>)))
  /\ Quiet

\* The callback after the inter-pulse gap: signalIdx++; playSignal()
NextSignal ==
  /\ Fires("gap")
  /\ Step(playSignal(Taken, timers[Due].signals, timers[Due].signalIdx + 1,
                     timers[Due].emergency))
  /\ Quiet

\* The callback after the inter-character gap
AdvanceIndex ==
  /\ Fires("advance")
  /\ Step([Taken EXCEPT !.currentSignalIndex = @ + 1,
                        !.observed.charStart = clock])
  /\ Quiet

\* The auto-transmit callback of handlePreset
PresetTransmit ==
  /\ Fires("preset")
  /\ Step([Taken EXCEPT !.morseOutput = textToMorse(timers[Due].text),
                        !.isTransmitting = TRUE,
                        !.currentSignalIndex = 0,
                        !.glyphCanvas = generateGlyph(timers[Due].text),
                        !.showGlyph = TRUE,
                        !.flashLog = <<>>,
                        !.observed.txStart = clock,
                        !.observed.charStart = clock])
  /\ Quiet

\* The auto-transmit callback of handleEmergencySOS
SOSTransmit ==
  /\ Fires("sos")
  /\ Step([Taken EXCEPT !.morseOutput = textToMorse(SOS),
                        !.isTransmitting = TRUE,
                        !.currentSignalIndex = 0,
                        !.flashLog = <<>>,
                        !.observed.txStart = clock,
                        !.observed.charStart = clock])
  /\ Quiet

----------------------------------------------------------------------------
(* loadDatabase and the browser's storage                                  *)

\* history.map(h => ({message, timestamp, encrypted: h.encrypted || undefined}))
HistoryEntryOf(h) ==
  [message |-> h.message, timestamp |-> h.timestamp,
   encrypted |-> IF h.encrypted = [tag |-> "", param |-> <<>>, body |-> <<>>]
                   THEN Undefined ELSE h.encrypted]

\* initSqlJs resolves: the rest of init() and of loadDatabase run
LoadDatabase ==
  /\ ~unmounted /\ NoneDue /\ loadState = "pending"
  /\ LET r == init(db, initialized, localStorage, storageFull)
         history == getRecentTransmissions(r.db, 20)
         loaded == Reverse([i \in 1..Len(history) |-> HistoryEntryOf(history[i])])
         s == [Cur EXCEPT !.db = r.db, !.localStorage = r.ls]
     IN /\ initialized' = r.initialized
        /\ loadState' = IF r.threw THEN "failed" ELSE "done"
        /\ IF ~r.threw /\ Len(history) > 0
             THEN Step([s EXCEPT !.transmissionHistory = loaded])
             ELSE Step(s)
  /\ UNCHANGED <<clock, storageFull, userLog, session, aside>>

\* initSqlJs rejects (the wasm file cannot be fetched) or localStorage.getItem
\* throws: init() rejects before this.db is assigned
LoadDatabaseFails ==
  /\ ~unmounted /\ NoneDue /\ loadState = "pending"
  /\ loadState' = "failed"
  /\ UNCHANGED <<message, morseOutput, isTransmitting, currentSignalIndex,
                 transmissionHistory, isFlashing, currentSignalType,
                 emergencyMode, encryptionMode, caesarShift, xorKey, timers,
                 clock, localStorage, storageFull, db, initialized, unmounted,
                 userLog, flashLog, lastDone, observed, session, audioEnabled,
                 isPossessed, glyphCanvas, showGlyph, aside>>

Next ==
  \/ \E text \in TypedTexts : TypeMessage(text)
  \/ handleTransmit
  \/ \E preset \in ClickedPresets : handlePreset(preset)
  \/ handleEmergencySOS
  \/ \E mode \in SelectedModes : SelectEncryption(mode)
  \/ Tick
  \/ FlashEnd
  \/ NextSignal
  \/ AdvanceIndex
  \/ PresetTransmit
  \/ SOSTransmit
  \/ LoadDatabase
  \/ LoadDatabaseFails

Spec == Init /\ [][Next]_vars

SpecQuota == InitQuota /\ [][Next]_vars

\* A typed message transmitted while the user switches audio off and on
NextAudio ==
  \/ \E text \in TypedTexts : TypeMessage(text)
  \/ handleTransmit
  \/ ToggleAudio
  \/ Tick
  \/ FlashEnd
  \/ NextSignal
  \/ AdvanceIndex

SpecAudio == Init /\ [][NextAudio]_vars

----------------------------------------------------------------------------
(* The store by itself: a caller initialises it, appends, clears, and the  *)
(* page is reloaded (a new TransmissionDB against the same localStorage)   *)

StoredTexts == {Str(<<"E">>), Str(<<"S","O","S">>)}
StoredModes == {"none", "caesar"}

CanStore == session.ops < MaxStoreOps

AppUnchanged ==
  UNCHANGED <<message, morseOutput, isTransmitting, currentSignalIndex,
              transmissionHistory, isFlashing, currentSignalType,
              emergencyMode, encryptionMode, caesarShift, xorKey, timers,
              clock, loadState, unmounted, userLog, flashLog, lastDone, observed,
              audioEnabled, isPossessed, glyphCanvas, showGlyph, aside>>

\* await transmissionDB.init(), initSqlJs having resolved
StoreInit ==
  /\ CanStore
  /\ LET r == init(db, initialized, localStorage, storageFull)
     IN /\ db' = r.db
        /\ initialized' = r.initialized
        /\ localStorage' = r.ls
        /\ session' = [session EXCEPT
                         !.ops = @ + 1,
                         !.sinceInit = IF initialized THEN @ + 1 ELSE 0,
                         !.lastSaveOk = IF initialized THEN @ ELSE ~r.threw]
  /\ UNCHANGED storageFull
  /\ AppUnchanged

\* transmissionDB.addTransmission(text, display, timestamp, mode)
StoreAdd(text, mode) ==
  /\ CanStore
  /\ LET display == encryptMessageWith(text, mode, caesarShift, xorKey).display
         r == addTransmission(db, localStorage, storageFull, text, display,
                              session.ops, mode)
     IN /\ db' = r.db
        /\ localStorage' = r.ls
        /\ session' =
             [session EXCEPT
                !.ops = @ + 1, !.sinceInit = @ + 1,
                !.lastSaveOk = IF db = NoDb THEN @ ELSE ~r.threw,
                !.calls = IF ~initialized THEN @
                          ELSE Append(@, [message |-> text, encrypted |-> display,
                                          timestamp |-> session.ops])]
  /\ UNCHANGED <<initialized, storageFull>>
  /\ AppUnchanged

\* transmissionDB.clearAll()
StoreClear ==
  /\ CanStore
  /\ LET r == clearAll(db, localStorage, storageFull)
     IN /\ db' = r.db
        /\ localStorage' = r.ls
        /\ session' = [session EXCEPT !.ops = @ + 1, !.sinceInit = @ + 1,
                                       !.lastSaveOk = IF db = NoDb THEN @ ELSE ~r.threw,
                                       !.calls = <<>>]
  /\ UNCHANGED <<initialized, storageFull>>
  /\ AppUnchanged

\* The page is reloaded: the module is evaluated again, new TransmissionDB()
StoreRestart ==
  /\ CanStore
  /\ db' = NoDb
  /\ initialized' = FALSE
  /\ session' = [session EXCEPT !.ops = @ + 1, !.sinceInit = @ + 1,
                                 !.restarted = TRUE,
                                 !.all = getAllTransmissions(db),
                                 !.saved = initialized /\ session.lastSaveOk,
                                 !.lastSaveOk = FALSE,
                                 !.calls = <<>>]
  /\ UNCHANGED <<localStorage, storageFull>>
  /\ AppUnchanged

\* The origin's storage quota is used up, or space is freed again
StoreQuota ==
  /\ CanStore
  /\ storageFull' = ~storageFull
  /\ session' = [session EXCEPT !.ops = @ + 1]
  /\ UNCHANGED <<db, initialized, localStorage>>
  /\ AppUnchanged

NextStore ==
  \/ StoreInit
  \/ \E text \in StoredTexts, mode \in StoredModes : StoreAdd(text, mode)
  \/ StoreClear
  \/ StoreRestart
  \/ StoreQuota

SpecStore == Init /\ [][NextStore]_vars


----------------------------------------------------------------------------
(* The text transforms by themselves: caesarEncrypt and xorEncrypt applied *)
(* to arguments drawn from bounded sets                                    *)

\* The substrings of at most MaxTextLen characters of a sample string
Windows(sample) ==
  {SubSeq(sample, w[1], w[1] + w[2] - 1) :
     w \in {v \in (1..Len(sample)) \X (0..MaxTextLen) : v[1] + v[2] - 1 <= Len(sample)}}

\* "@ABCDEFGHIJKLMNOPQRSTUVWXYZ[ 0": every uppercase letter, the characters
\* next to the letters in code order, a space and a digit
CaesarSample == <<64>> \o [i \in 1..26 |-> 64 + i] \o <<91, 32, 48>>
CaesarShifts == 0..25
CaesarArgs ==
  {[fn |-> "caesar", text |-> t, shift |-> k, key |-> <<>>] :
     t \in Windows(CaesarSample), k \in CaesarShifts}

\* maxLength={3} of the XOR key input
MaxKeyLength == 3
XorSample == Str(<<"S","O","S"," ","7">>)
XorKeyChars == {CodeOf("0"), CodeOf("1"), CodeOf("9"), CodeOf("-"), CodeOf(" "),
                CodeOf("a")}
XorKeys == UNION {[1..n -> XorKeyChars] : n \in 0..MaxKeyLength}
XorArgs ==
  {[fn |-> "xor", text |-> t, shift |-> 0, key |-> k] :
     t \in Windows(XorSample), k \in XorKeys}

InitPure ==
  /\ Mounted
  /\ storageFull = FALSE
  /\ args \in CaesarArgs \cup XorArgs

PureUnchanged ==
  UNCHANGED <<app, store, sanity, possessionTimer, konamiSequence, channel,
              decodeMode, decodeInput, decodedText, channelTimers, keyLog,
              ticks, args>>

\* caesarEncrypt(text, shift)
ApplyCaesar ==
  /\ args.fn = "caesar" /\ ~applied.done
  /\ applied' = [applied EXCEPT !.done = TRUE,
                                !.out = caesarEncrypt(args.text, args.shift)]
  /\ PureUnchanged

\* caesarEncrypt(encrypted, 26 - shift) on what ApplyCaesar returned
UndoCaesar ==
  /\ args.fn = "caesar" /\ applied.done /\ ~applied.undone
  /\ applied' = [applied EXCEPT !.undone = TRUE,
                                !.back = caesarEncrypt(applied.out, 26 - args.shift)]
  /\ PureUnchanged

\* xorEncrypt(text, key)
ApplyXor ==
  /\ args.fn = "xor" /\ ~applied.done
  /\ applied' = [applied EXCEPT !.done = TRUE,
                                !.out = xorEncrypt(args.text, args.key)]
  /\ PureUnchanged

NextPure ==
  \/ ApplyCaesar
  \/ UndoCaesar
  \/ ApplyXor

SpecPure == InitPure /\ [][NextPure]_vars

----------------------------------------------------------------------------
(* The channel dial and the decoder of channel 4                           *)

\* setPossessionTimer(999) of channel 2
UpsideDownTimer == 999

\* handleChannelChange(newChannel), from the dial's buttons: the channel is
\* applied 500 ms later
handleChannelChange(newChannel) ==
  /\ CanAct
  /\ newChannel >= 1 /\ newChannel <= 4
  /\ channelTimers' = Append(channelTimers, newChannel)
  /\ Did("channel", <<newChannel>>)
  /\ UNCHANGED <<message, morseOutput, isTransmitting, currentSignalIndex,
                 transmissionHistory, isFlashing, currentSignalType,
                 emergencyMode, encryptionMode, caesarShift, xorKey, timers,
                 clock, loadState, unmounted, flashLog, lastDone, observed, audioEnabled,
                 isPossessed, glyphCanvas, showGlyph, store, sanity,
                 possessionTimer, konamiSequence, channel, decodeMode,
                 decodeInput, decodedText, keyLog, ticks, args, applied>>

\* The callback of handleChannelChange: setChannel and the channel's modes
ChannelApply ==
  /\ ~unmounted /\ NoneDue
  /\ channelTimers # <<>>
  /\ LET newChannel == Head(channelTimers)
     IN /\ channel' = newChannel
        /\ Step([Cur EXCEPT !.isPossessed = (newChannel = 2),
                            !.emergencyMode = (newChannel = 3)])
        /\ decodeMode' = (newChannel = 4)
        /\ sanity' = IF newChannel = 2 THEN sanity ELSE SanityFull
        /\ possessionTimer' = IF newChannel = 2 THEN UpsideDownTimer
                              ELSE possessionTimer
  /\ channelTimers' = Tail(channelTimers)
  /\ UNCHANGED <<clock, storageFull, initialized, loadState, userLog, session,
                 konamiSequence, decodeInput, decodedText, keyLog, ticks, args,
                 applied>>

\* pulse strings joined by ' '
RECURSIVE JoinMorse(_)
JoinMorse(morse) ==
  IF morse = <<>> THEN <<>>
  ELSE IF Len(morse) = 1 THEN Str(morse[1])
  ELSE Str(morse[1]) \o <<32>> \o JoinMorse(Tail(morse))

\* What the model's user types into the decoder: the Morse of short texts over
\* the 37 characters of the symbol table, and inputs that are not
\* well-formed: nothing, white space alone, unknown tokens, letters, padding
\* and doubled separators
DecoderTyped ==
  {JoinMorse(textToMorse(t)) : t \in Windows(MorseEntries)} \cup
  {Str(<<" ">>), Str(<<".","-",".","-",".","-">>), Str(<<"e">>),
   Str(<<" ",".","-"," "," ","-"," ">>), Str(<<".","/","?">>)}

DecoderUnchanged ==
  UNCHANGED <<app, store, sanity, possessionTimer, konamiSequence, channel,
              decodeMode, channelTimers, keyLog, ticks, args, applied>>

\* onChange of the decoder's input (rendered while decodeMode)
TypeDecodeInput(text) ==
  /\ ~unmounted /\ decodeMode
  /\ decodeInput' = [i \in 1..Len(text) |-> toUpperCase(text[i])]
  /\ decodeInput' # decodeInput
  /\ UNCHANGED decodedText
  /\ DecoderUnchanged

\* handleDecode, from the DECODE button
handleDecode ==
  /\ ~unmounted /\ decodeMode
  /\ decodedText' = decode(decodeInput)
  /\ decodedText' # decodedText
  /\ UNCHANGED decodeInput
  /\ DecoderUnchanged

NextDecoder ==
  \/ \E newChannel \in {channel - 1, channel + 1} : handleChannelChange(newChannel)
  \/ ChannelApply
  \/ \E text \in DecoderTyped : TypeDecodeInput(text)
  \/ handleDecode

SpecDecoder == Init /\ [][NextDecoder]_vars

----------------------------------------------------------------------------
(* The sanity meter, possession and the Konami code                        *)
(*                                                                         *)
(* Each of the two effects below owns an interval of 1000 ms that exists   *)
(* while the effect's condition holds; every callback changes a dependency *)
(* of its effect, which clears the interval and creates the next one.      *)

\* setPossessionTimer(30) of the sanity effect
PossessionTicks == 30

\* Another code of four keys
OtherCode == <<"ArrowUp", "ArrowUp", "b", "a">>

KONAMI_CODE == <<"ArrowUp", "ArrowUp", "a", "b">>

\* The sanity effect's callback, setSanity(prev => Math.max(0, prev - 0.5)),
\* and the effect's run in the render after it: possession when sanity <= 0
SanityInterval ==
  /\ ~unmounted /\ NoneDue
  /\ ~isPossessed /\ sanity > 0
  /\ sanity' = IF sanity - 1 > 0 THEN sanity - 1 ELSE 0
  /\ IF sanity' <= 0
       THEN /\ Step([Cur EXCEPT !.isPossessed = TRUE])
            /\ possessionTimer' = PossessionTicks
       ELSE /\ Step(Cur)
            /\ UNCHANGED possessionTimer
  /\ UNCHANGED <<clock, storageFull, initialized, loadState, userLog, session,
                 konamiSequence, channel, decodeMode, decodeInput, decodedText,
                 channelTimers, keyLog, args, applied>>

\* The updater of the possession effect's callback with the test prev <= 0
possessionUpdateLate(prev) ==
  IF prev <= 0 THEN [timer |-> 0, ends |-> TRUE]
  ELSE [timer |-> prev - 1, ends |-> FALSE]

\* The updater of the possession effect's callback: the next possessionTimer,
\* and whether it ends the possession
possessionUpdate(prev) ==
  IF prev <= 1 THEN [timer |-> 0, ends |-> TRUE]
  ELSE [timer |-> prev - 1, ends |-> FALSE]

\* The possession effect's callback
PossessionInterval ==
  /\ ~unmounted /\ NoneDue
  /\ isPossessed /\ possessionTimer > 0
  /\ LET next == possessionUpdate(possessionTimer)
     IN /\ possessionTimer' = next.timer
        /\ IF next.ends
             THEN /\ Step([Cur EXCEPT !.isPossessed = FALSE])
                  /\ sanity' = SanityFull
             ELSE /\ Step(Cur)
                  /\ UNCHANGED sanity
  /\ UNCHANGED <<clock, storageFull, initialized, loadState, userLog, session,
                 konamiSequence, channel, decodeMode, decodeInput, decodedText,
                 channelTimers, keyLog, args, applied>>

SanityTick == SanityInterval /\ UNCHANGED ticks
PossessionTick == PossessionInterval /\ UNCHANGED ticks

\* The terminal left to itself
NextSanity ==
  \/ SanityTick
  \/ PossessionTick

SpecSanity ==
  Init /\ [][NextSanity]_vars /\ WF_vars(SanityTick) /\ WF_vars(PossessionTick)

\* The last n elements: Array.prototype.slice(-n)
LastN(seq, n) == IF Len(seq) <= n THEN seq ELSE SubSeq(seq, Len(seq) - n + 1, Len(seq))

\* The keys the model's user presses
KeysPressed == {"ArrowUp", "a", "b"}

\* handleKeyDown of the window's keydown listener
KeyDown(key) ==
  /\ ~unmounted /\ NoneDue
  /\ Len(keyLog) < MaxKeys
  /\ keyLog' = Append(keyLog, key)
  /\ LET newSequence == LastN(Append(konamiSequence, key), 10)
     IN IF LastN(newSequence, 4) = KONAMI_CODE
          THEN /\ Step([Cur EXCEPT !.isPossessed = FALSE])
               /\ sanity' = SanityFull
               /\ possessionTimer' = 0
               /\ konamiSequence' = <<>>
          ELSE /\ Step(Cur)
               /\ konamiSequence' = newSequence
               /\ UNCHANGED <<sanity, possessionTimer>>
  /\ UNCHANGED <<clock, storageFull, initialized, loadState, userLog, session,
                 channel, decodeMode, decodeInput, decodedText, channelTimers,
                 ticks, args, applied>>

\* An interval callback, counted
CountedTick ==
  /\ ticks < MaxTicks
  /\ ticks' = ticks + 1
  /\ SanityInterval \/ PossessionInterval

\* The terminal with a user at the keyboard and the channel dial
NextKonami ==
  \/ \E key \in KeysPressed : KeyDown(key)
  \/ \E newChannel \in {channel - 1, channel + 1} : handleChannelChange(newChannel)
  \/ ChannelApply
  \/ CountedTick

SpecKonami == Init /\ [][NextKonami]_vars

----------------------------------------------------------------------------
(* One typed message, transmitted and left to run until the last pending   *)
(* callback has fired                                                      *)

\* Typed messages of several characters: a word separator first, and a
\* character the symbol table lacks
SequencedTexts == {Str(<<" ","E">>), Str(<<"!","!","!">>)}

\* 100 ms pass while callbacks are pending and none is due, for as long as
\* callbacks are pending
Elapse ==
  /\ ~unmounted
  /\ timers # <<>> /\ NoneDue
  /\ timers' = [i \in 1..Len(timers) |-> [timers[i] EXCEPT !.rem = @ - 1]]
  /\ clock' = clock + 1
  /\ UNCHANGED <<message, morseOutput, isTransmitting, currentSignalIndex,
                 transmissionHistory, isFlashing, currentSignalType,
                 emergencyMode, encryptionMode, caesarShift, xorKey,
                 localStorage, storageFull, db, initialized, loadState,
                 unmounted, userLog, flashLog, lastDone, observed, session,
                 audioEnabled, isPossessed, glyphCanvas, showGlyph, aside>>

NextSequencer ==
  \/ \E text \in SequencedTexts : TypeMessage(text)
  \/ handleTransmit
  \/ Elapse
  \/ FlashEnd
  \/ NextSignal
  \/ AdvanceIndex

\* The browser runs the callback that is due, and time passes while callbacks
\* are pending and none is due
TimerStep == Elapse \/ FlashEnd \/ NextSignal \/ AdvanceIndex
TimersFair == WF_vars(TimerStep)

SpecSequencer == Init /\ [][NextSequencer]_vars /\ TimersFair

\* Typed messages of one and of three letters, watched for their first second
LetterTexts == {Str(<<"E">>), Str(<<"E","T","E">>)}

NextLetters ==
  \/ \E text \in LetterTexts : TypeMessage(text)
  \/ handleTransmit
  \/ Tick
  \/ FlashEnd
  \/ NextSignal
  \/ AdvanceIndex

SpecLetters == Init /\ [][NextLetters]_vars

\* An SOS transmission during which the user turns the channel dial
NextTones ==
  \/ handleEmergencySOS
  \/ SOSTransmit
  \/ \E newChannel \in {channel - 1, channel + 1} : handleChannelChange(newChannel)
  \/ ChannelApply
  \/ Tick
  \/ FlashEnd
  \/ NextSignal

SpecTones == Init /\ [][NextTones]_vars

----------------------------------------------------------------------------
(* The page reloaded between two sessions: the component and the store      *)
(* start afresh, localStorage keeps what the session before has written     *)

\* How many times the page is reloaded
MaxReloads == 1

\* Typed messages: one that takes 900 ms and one that completes at once
ReloadTexts == {Str(<<"E">>), Str(<<"!">>)}

\* The browser reloads the page: every useState(...) initial value again, a
\* TransmissionDB just constructed, the pending callbacks gone
Reload ==
  /\ NoneDue
  /\ session.ops < MaxReloads
  /\ message' = <<>>
  /\ morseOutput' = <<>>
  /\ isTransmitting' = FALSE
  /\ currentSignalIndex' = 0
  /\ transmissionHistory' = <<>>
  /\ isFlashing' = FALSE
  /\ currentSignalType' = "null"
  /\ emergencyMode' = FALSE
  /\ encryptionMode' = "none"
  /\ caesarShift' = 3
  /\ xorKey' = Str(<<"1","1">>)
  /\ timers' = <<>>
  /\ clock' = 0
  /\ db' = NoDb
  /\ initialized' = FALSE
  /\ loadState' = "pending"
  /\ unmounted' = FALSE
  /\ userLog' = <<>>
  /\ flashLog' = <<>>
  /\ lastDone' = [message |-> <<>>, display |-> <<>>, morse |-> <<>>,
                 flashes |-> <<>>, mode |-> "none", count |-> 0]
  /\ observed' = NothingObserved
  /\ audioEnabled' = TRUE
  /\ isPossessed' = FALSE
  /\ glyphCanvas' = <<>>
  /\ showGlyph' = FALSE
  /\ sanity' = SanityFull
  /\ possessionTimer' = 0
  /\ konamiSequence' = <<>>
  /\ channel' = 1
  /\ decodeMode' = FALSE
  /\ decodeInput' = <<>>
  /\ decodedText' = <<>>
  /\ channelTimers' = <<>>
  /\ keyLog' = <<>>
  /\ ticks' = 0
  /\ applied' = NotApplied
  /\ session' = [session EXCEPT !.restarted = TRUE, !.ops = @ + 1]
  /\ UNCHANGED <<localStorage, storageFull, args>>

NextReload ==
  \/ \E text \in ReloadTexts : TypeMessage(text)
  \/ handleTransmit
  \/ Tick
  \/ FlashEnd
  \/ NextSignal
  \/ AdvanceIndex
  \/ LoadDatabase
  \/ LoadDatabaseFails
  \/ Reload

SpecReload == Init /\ [][NextReload]_vars

----------------------------------------------------------------------------
(* Properties                                                              *)

Triggers == {"transmit", "preset", "sos"}

\* The pulses of a Morse sequence, flattened, as the kinds playSignal shows
RECURSIVE PulseKinds(_)
PulseKinds(morse) ==
  IF morse = <<>> THEN <<>>
  ELSE [i \in 1..Len(Head(morse)) |-> IF Head(morse)[i] = "." THEN "dit" ELSE "dah"]
       \o PulseKinds(Tail(morse))

\* The playSignal chains that have a callback pending
LiveChains == {i \in 1..Len(timers) : timers[i].kind \in {"flashEnd", "gap", "advance"}}

\* C1: when a second transmission is triggered for B while the transmission
\* of A is running, the entries appended from then on are at most one, and its
\* plaintext is A.
C1_OnlyFirstLogged ==
  \A i \in 1..Len(userLog) :
    (userLog[i].act \in Triggers /\ userLog[i].running) =>
      /\ Len(transmissionHistory) <= userLog[i].logged + 1
      /\ \A k \in (userLog[i].logged + 1)..Len(transmissionHistory) :
           transmissionHistory[k].message = userLog[i].over

\* C2: a trigger taken while isTransmitting is true leaves message,
\* morseOutput, currentSignalIndex and the pending timers unchanged.
C2_TriggerWhileRunningIsNoOp ==
  [][(/\ isTransmitting
      /\ Len(userLog') = Len(userLog) + 1
      /\ userLog'[Len(userLog')].act \in Triggers)
       => UNCHANGED <<message, morseOutput, currentSignalIndex, timers>>]_vars

\* C3: when a message T is typed and transmitted from idle and the user does
\* nothing else, the flash-begin events up to completion are exactly the
\* pulses of the Morse encoding of T, in order, and the history is the one
\* entry for T.
C3_ExactlyThePulses ==
  (/\ lastDone.count = 1
   /\ Len(userLog) = 2
   /\ userLog[1].act = "type" /\ userLog[2].act = "transmit") =>
     /\ lastDone.flashes = PulseKinds(textToMorse(userLog[2].text))
     /\ Len(transmissionHistory) = 1
     /\ transmissionHistory[1].message = userLog[2].text

\* C4: while a transmission is running the message is not blank, and no
\* entry of the history or row of the store has a blank message.
C4_BlankNeverTransmitted ==
  /\ isTransmitting => trim(message) # <<>>
  /\ \A k \in 1..Len(transmissionHistory) : trim(transmissionHistory[k].message) # <<>>
  /\ db # NoDb => \A k \in 1..Len(db.rows) : trim(db.rows[k].message) # <<>>

\* C5: when no transmission is running, currentSignalIndex is 0 and no pulse
\* is shown.
C5_IdleIsReset ==
  ~isTransmitting =>
    currentSignalIndex = 0 /\ ~isFlashing /\ currentSignalType = "null"

\* C6: while a transmission is running at most one playSignal chain is live.
C6_OneChain == isTransmitting => Cardinality(LiveChains) <= 1

C9_StoreNeverThrows ==
  /\ ~unmounted
  /\ db = NoDb =>
       /\ getAllTransmissions(db) = <<>>
       /\ getRecentTransmissions(db, 20) = <<>>
       /\ getStatsTotal(db) = 0

\* C10: whenever a transmission starts, whatever the trigger, the Morse
\* sequence is the encoding of the forMorse text of encryptMessage of the
\* message (the Caesar-shifted text in caesar mode), the result whose display
\* text is logged.  Stated for the first trigger of a behaviour, with its
\* message still in place.
C10_MorseFromEncryptMessage ==
  [][(/\ ~isTransmitting /\ isTransmitting'
      /\ \E i \in 1..Len(userLog') :
           /\ userLog'[i].act \in Triggers
           /\ message' = userLog'[i].text
           /\ \A j \in 1..Len(userLog') : userLog'[j].act \in Triggers => j = i)
       => morseOutput' =
            textToMorse(encryptMessageWith(message', encryptionMode',
                                           caesarShift', xorKey').forMorse)]_vars

\* C11: for every shift k in 0..25 and every text of uppercase letters,
\* caesarEncrypt(caesarEncrypt(text, k), 26 - k) is the text again, and
\* caesarEncrypt leaves every character that is not an uppercase letter as
\* it is.
C11_CaesarRoundTrip ==
  (args.fn = "caesar" /\ applied.done) =>
    /\ Len(applied.out) = Len(args.text)
    /\ \A i \in 1..Len(args.text) :
         ~(args.text[i] >= 65 /\ args.text[i] <= 90) => applied.out[i] = args.text[i]
    /\ (applied.undone /\ \A i \in 1..Len(args.text) :
                            args.text[i] >= 65 /\ args.text[i] <= 90)
         => applied.back = args.text

\* Two letters of which one wrapped past Z, encrypted and decrypted again
C11_Witness ==
  /\ args.fn = "caesar" /\ applied.undone
  /\ Len(args.text) = 2
  /\ \A i \in 1..2 : args.text[i] >= 65 /\ args.text[i] <= 90
  /\ \E i \in 1..2 : applied.out[i] < args.text[i]
  /\ applied.back = args.text

IsHexDigit(ch) == IsDigit(ch) \/ (ch >= 65 /\ ch <= 70)

\* The number a string of uppercase hexadecimal digits denotes
RECURSIVE HexValue(_, _)
HexValue(token, acc) ==
  IF token = <<>> THEN acc
  ELSE HexValue(Tail(token),
                16 * acc + (IF IsDigit(Head(token)) THEN Head(token) - 48
                            ELSE Head(token) - 55))

\* C12: for every text and every key of up to 3 characters, xorEncrypt
\* renders each character as one token of exactly two hexadecimal digits,
\* and the number each token denotes, XOR-ed with the same key, is the
\* character again.
C12_TwoHexDigitsRoundTrip ==
  (args.fn = "xor" /\ applied.done) =>
    /\ Len(applied.out) = Len(args.text)
    /\ \A i \in 1..Len(args.text) :
         /\ Len(applied.out[i]) = 2
         /\ \A j \in 1..2 : IsHexDigit(applied.out[i][j])
         /\ BitXor(HexValue(applied.out[i], 0), keyNum(args.key)) = args.text[i]

\* C14: xorEncrypt uses the number parsed from the key whenever the key
\* parses as a number, and the default 11 only when it does not parse.
C14_ParsedKeyUsed ==
  (args.fn = "xor" /\ applied.done) =>
    applied.out = xorWith(args.text, keyNumNaNOnly(args.key))

\* C13: the symbol table has 37 characters (A-Z, 0-9, space), no two of them
\* share a pulse string, and REVERSE_MORSE[MORSE_CODE[uppercase(c)]] is
\* uppercase(c) for every supported character c, in either case; so the
\* decoder, wherever it is shown, turns the pulse string of c into uppercase(c).
C13_SymbolTableBijection ==
  decodeMode =>
    /\ DOMAIN MORSE_CODE = (65..90) \cup (48..57) \cup {32}
    /\ Cardinality(DOMAIN MORSE_CODE) = 37
    /\ \A c, d \in DOMAIN MORSE_CODE : c # d => MORSE_CODE[c] # MORSE_CODE[d]
    /\ Cardinality(DOMAIN REVERSE_MORSE) = 37
    /\ \A c \in DOMAIN MORSE_CODE \cup (97..122) :
         /\ REVERSE_MORSE[Str(MORSE_CODE[toUpperCase(c)])] = toUpperCase(c)
         /\ decode(Str(MORSE_CODE[toUpperCase(c)])) = <<toUpperCase(c)>>

\* The decoder has decoded the pulse string of a letter, typed as it is in
\* the table, into that letter
C13_Witness ==
  /\ decodeMode
  /\ \E c \in 65..90 : decodeInput = Str(MORSE_CODE[c]) /\ decodedText = <<c>>

\* C15: handleDecode maps each white-space-delimited token of its input to
\* the token's character, or to '?' when the token is no pulse string of the
\* table; the space-joined Morse of a text of supported characters decodes
\* to that text, and an input without tokens decodes to the empty text.
C15_DecodeTokens ==
  [][decodedText' # decodedText =>
       /\ LET tokens == Runs(decodeInput)
          IN decodedText' =
               [i \in 1..Len(tokens) |->
                  IF tokens[i] \in DOMAIN REVERSE_MORSE
                    THEN REVERSE_MORSE[tokens[i]] ELSE 63]
       /\ \A t \in Windows(MorseEntries) :
            decodeInput = JoinMorse(textToMorse(t)) => decodedText' = t]_vars

\* C16: audio does not influence the sequencer: a click on the audio toggle,
\* also while a transmission is running, begins and ends no flash, starts no
\* timer, advances no index and appends no HistoryEntry, so that the
\* sequencer's events are those of the same run without the click.
C16_AudioToggleSilent ==
  [][audioEnabled' # audioEnabled =>
       /\ timers' = timers
       /\ flashLog' = flashLog
       /\ isFlashing' = isFlashing
       /\ currentSignalType' = currentSignalType
       /\ currentSignalIndex' = currentSignalIndex
       /\ transmissionHistory' = transmissionHistory]_vars

\* C17: while the terminal is not possessed the sanity meter only falls, and
\* it falls to 0; when it reaches 0 the terminal becomes possessed with
\* possessionTimer = 30; left to itself, that possession ends after 30
\* ticks, one apiece down from 30, with isPossessed = false and sanity = 100.
C17_SanityPossession ==
  /\ [][(~isPossessed /\ sanity' # sanity) => sanity' < sanity]_vars
  /\ [](sanity = 0 => isPossessed)
  /\ [][(~isPossessed /\ isPossessed') =>
          (sanity' = 0 /\ possessionTimer' = 30)]_vars
  /\ [][(isPossessed /\ isPossessed') =>
          possessionTimer' = possessionTimer - 1]_vars
  /\ [][(isPossessed /\ ~isPossessed') =>
          (possessionTimer = 1 /\ possessionTimer' = 0 /\ sanity' = SanityFull)]_vars
  /\ ~isPossessed ~> (isPossessed /\ possessionTimer = 30)
  /\ (isPossessed /\ possessionTimer = 30) ~> (~isPossessed /\ sanity = SanityFull)

\* The last second of a possession that the empty meter started
C17_Witness == isPossessed /\ sanity = 0 /\ possessionTimer = 1 /\ channel = 1

\* C18: whatever the state and the keys pressed before, the key that
\* completes ArrowUp, ArrowUp, a, b leaves isPossessed = false, sanity = 100,
\* possessionTimer = 0 and an empty konamiSequence.
C18_KonamiRestores ==
  [][(keyLog' # keyLog /\ LastN(keyLog', 4) = <<"ArrowUp", "ArrowUp", "a", "b">>) =>
       /\ ~isPossessed'
       /\ sanity' = SanityFull
       /\ possessionTimer' = 0
       /\ konamiSequence' = <<>>]_vars

\* In channel 2, where the dial had possessed the terminal: another key, then
\* the code, and the terminal is restored
C18_Witness ==
  /\ channel = 2 /\ channelTimers = <<>>
  /\ Len(keyLog) > 4
  /\ LastN(keyLog, 4) = <<"ArrowUp", "ArrowUp", "a", "b">>
  /\ ~isPossessed /\ sanity = SanityFull /\ possessionTimer = 0
  /\ konamiSequence = <<>>

\* C19: once channel 2 has been applied, isPossessed is true for as long as
\* channel 2 is the selected channel.
C19_UpsideDownPermanent == channel = 2 => isPossessed

\* The behaviour's one trigger so far, its text still the message
OneTrigger(log, text) ==
  \E i \in 1..Len(log) :
    /\ log[i].act \in Triggers
    /\ text = log[i].text
    /\ \A j \in 1..Len(log) : log[j].act \in Triggers => j = i

\* C20: whenever a transmission is started by any trigger (typed message,
\* preset or SOS), glyphCanvas is generateGlyph of the message being
\* transmitted and showGlyph is true, and both stay so while it runs.
\* Stated for the first trigger of a behaviour, with its message in place.
C20_GlyphForEveryTrigger ==
  [][(isTransmitting' /\ OneTrigger(userLog', message')) =>
       /\ showGlyph'
       /\ glyphCanvas' = generateGlyph(message')]_vars

RECURSIVE CharUnits(_)
CharUnits(signals) ==
  IF signals = <<>> THEN CharGapUnits
  ELSE (IF Head(signals) = "." THEN DitUnits ELSE DahUnits) + PulseGapUnits
         + CharUnits(Tail(signals))

\* C22: while a transmission is running, currentSignalIndex changes only by
\* +1, and only once the pulses of morseOutput[currentSignalIndex] and the
\* 500 ms gap have had their time since the index took its value: it is not
\* incremented twice for one character and no character is skipped.
C22_OneAdvancePerCharacter ==
  [][(isTransmitting /\ isTransmitting' /\
      currentSignalIndex' # currentSignalIndex) =>
       /\ currentSignalIndex' = currentSignalIndex + 1
       /\ currentSignalIndex < Len(morseOutput)
       /\ clock - observed.charStart >=
            CharUnits(morseOutput[currentSignalIndex + 1])]_vars

\* The pending flash-end callbacks
FlashEnds == {i \in 1..Len(timers) : timers[i].kind = "flashEnd"}

\* C23: pulses do not overlap.  While a transmission runs at most one flash
\* end is pending, it comes no later than 200 ms (dit) or 600 ms (dah) after
\* its flash begin, and the k-th flash begin comes no sooner than k - 1 pulses
\* and gaps after the first: flash begins and flash ends alternate.
C23_PulsesDoNotOverlap ==
  isTransmitting =>
    /\ Cardinality(FlashEnds) <= 1
    /\ \A i \in FlashEnds :
         timers[i].rem <= (IF timers[i].signals[timers[i].signalIdx + 1] = "."
                             THEN DitUnits ELSE DahUnits)
    /\ (Len(flashLog) - 1) * (DitUnits + PulseGapUnits) <= clock - observed.txStart

\* C24: a tone is requested with every flash begin and only then, for the
\* pulse's duration, at 880 Hz when emergencyMode is on and at 700 Hz
\* otherwise.
C24_ToneWithEveryFlash ==
  /\ \A t \in observed.tones :
       /\ t.frequency = (IF t.emergencyMode THEN EmergencyHz ELSE NormalHz)
       /\ t.duration = (IF t.kind = "dit" THEN DitUnits ELSE DahUnits)
  /\ \A i \in 1..Len(flashLog) : \E t \in observed.tones : t.kind = flashLog[i]

\* The behaviour's triggers so far are one click of the transmit button
OnlyTransmitClicked ==
  /\ \E i \in 1..Len(userLog) : userLog[i].act = "transmit"
  /\ \A i, j \in 1..Len(userLog) :
       (userLog[i].act \in Triggers /\ userLog[j].act \in Triggers) =>
         (i = j /\ userLog[i].act = "transmit")

\* C25: the entry appended at a completion carries the plaintext, the display
\* text and the transform mode that handleTransmit computed when the
\* transmission was started, whatever was selected while it ran.  Stated for
\* a behaviour whose one transmission was started from the transmit button.
C25_EntryAsStarted ==
  (lastDone.count = 1 /\ OnlyTransmitClicked) =>
    /\ lastDone.message = observed.started.message
    /\ lastDone.display = observed.started.display
    /\ lastDone.mode = observed.started.mode

\* C27: the entry a completion appends to the in-memory history is also a row
\* of the store, and the store's image in localStorage holds it, whether
\* transmissionDB.init() has resolved by then or not.
C27_CompletionIsStored ==
  [][lastDone.count' > lastDone.count =>
       /\ db' # NoDb
       /\ \E i \in 1..Len(db'.rows) :
            /\ db'.rows[i].message = lastDone'.message
            /\ db'.rows[i].encrypted = lastDone'.display
            /\ db'.rows[i].encryption_mode = lastDone'.mode
       /\ localStorage' = dbExport(db')]_vars

\* C26: within a page session the in-memory history only grows at its end.
\* A step leaves the entries that are present where they are; a step other
\* than the load of the stored history changes transmissionHistory only by
\* appending the one entry of a completion.
C26_HistoryAppendOnly ==
  [][session' = session =>
       /\ Len(transmissionHistory) <= Len(transmissionHistory')
       /\ SubSeq(transmissionHistory', 1, Len(transmissionHistory)) =
            transmissionHistory
       /\ (transmissionHistory' # transmissionHistory /\ loadState' = loadState) =>
            /\ lastDone'.count = lastDone.count + 1
            /\ transmissionHistory' =
                 Append(transmissionHistory,
                        [message |-> lastDone'.message, timestamp |-> clock,
                         encrypted |-> lastDone'.display])]_vars

\* The step is a click of the transmit button
TransmitClicked ==
  /\ Len(userLog') = Len(userLog) + 1
  /\ userLog'[Len(userLog')].act = "transmit"

DahTone == \E t \in observed.tones : t.kind = "dah" /\ t.duration = DahUnits

\* C29: a space of the message is encoded as "/", and "/" is played as a dah.
\* At the instant a character whose pulse string begins with a symbol other
\* than "." becomes the current one, a flash of 600 ms has begun together
\* with a tone; and every pending flash end of such a symbol is that of a dah.
C29_SeparatorPlayedAsDah ==
  /\ \A i \in 1..Len(message) :
       message[i] = 32 => textToMorse(<<message[i]>>) = << <<"/">> >>
  /\ (/\ isTransmitting
      /\ currentSignalIndex < Len(morseOutput)
      /\ clock = observed.charStart
      /\ morseOutput[currentSignalIndex + 1][1] # ".") =>
       /\ isFlashing
       /\ DahTone
       /\ flashLog # <<>> /\ flashLog[Len(flashLog)] = "dah"
       /\ \E i \in FlashEnds :
            /\ timers[i].signals = morseOutput[currentSignalIndex + 1]
            /\ timers[i].signalIdx = 0
            /\ timers[i].rem = DahUnits
  /\ \A i \in FlashEnds :
       timers[i].signals[timers[i].signalIdx + 1] # "." =>
         (timers[i].rem <= DahUnits /\ DahTone)

\* The transmission of " E" has just begun: its separator is being flashed
C29_Witness ==
  /\ isTransmitting
  /\ message = Str(<<" ","E">>)
  /\ morseOutput = << <<"/">>, <<".">> >>
  /\ currentSignalIndex = 0
  /\ isFlashing /\ currentSignalType = "dah"
  /\ \E i \in FlashEnds : timers[i].signals = <<"/">> /\ timers[i].rem = DahUnits
  /\ DahTone

\* C30: while the transmission display is rendered (isTransmitting and
\* currentSignalIndex < morseOutput.length), the character it shows,
\* message.charAt(currentSignalIndex), is the one whose Morse code is the
\* pattern it shows, morseOutput[currentSignalIndex], and the position it
\* shows, currentSignalIndex + 1, is at most morseOutput.length.  Stated for
\* a behaviour whose one transmission was started from the transmit button.
C30_DisplayedCharacterMatchesPattern ==
  (isTransmitting /\ currentSignalIndex < Len(morseOutput) /\ OnlyTransmitClicked) =>
    /\ currentSignalIndex + 1 <= Len(morseOutput)
    /\ currentSignalIndex < Len(message)
    /\ toUpperCase(message[currentSignalIndex + 1]) \in DOMAIN MORSE_CODE
    /\ MORSE_CODE[toUpperCase(message[currentSignalIndex + 1])] =
         morseOutput[currentSignalIndex + 1]

====
